---------------------------- MODULE Spec2Model ----------------------------
(***************************************************************************)
(* Week03 interactive financial dashboard: the price pipeline of           *)
(* app/utlis.py (fetch_data, validate_df, add_features) and the script of  *)
(* the two Streamlit front ends that drive it (cached_fetch, Refresh).     *)
(*                                                                         *)
(* Cell values are floats.  They are modelled exactly, as fractions        *)
(* <<n, d>> with d > 0 in lowest terms, plus the three IEEE specials       *)
(* NaN = <<0,0>>, +inf = <<1,0>>, -inf = <<-1,0>>; a square root that is   *)
(* not rational is kept as <<n, d, 2>> (the root of n/d).  Rounding of     *)
(* binary floating point is not modelled.                                  *)
(***************************************************************************)
EXTENDS Integers, Sequences, FiniteSets, TLC

VARIABLES heap, DF, DF_out, err, call,
          variant, refresh_token, cache, req, pc, trace, served, download

vars == <<heap, DF, DF_out, err, call,
          variant, refresh_token, cache, req, pc, trace, served, download>>

libvars == <<heap, DF, DF_out, err, call>>
dashvars == <<variant, refresh_token, cache, req, pc, trace, served, download>>

(***************************************************************************)
(* Bounds of the model.                                                    *)
(***************************************************************************)
MaxRows == 3
MaxWin == 4
MaxRefresh == 2

(***************************************************************************)
(* Floats.                                                                 *)
(***************************************************************************)
NaN == <<0, 0>>

Num(n) == <<n, 1>>

Abs(n) == IF n < 0 THEN -n ELSE n

Sgn(n) == IF n < 0 THEN -1 ELSE IF n > 0 THEN 1 ELSE 0

RECURSIVE GCD(_, _)
GCD(a, b) == IF b = 0 THEN a ELSE GCD(b, a % b)

Norm(n, d) ==
    IF d = 0 THEN <<Sgn(n), 0>>
    ELSE LET s == IF d < 0 THEN -1 ELSE 1
             g == GCD(Abs(n), Abs(d))
         IN  <<(s * n) \div g, (s * d) \div g>>

IsNaN(v) == v = NaN

IsFinite(v) == v[2] # 0

FAdd(a, b) ==
    IF IsNaN(a) \/ IsNaN(b) THEN NaN
    ELSE IF a[2] = 0 /\ b[2] = 0 THEN (IF a = b THEN a ELSE NaN)
    ELSE Norm(a[1] * b[2] + b[1] * a[2], a[2] * b[2])

FNeg(a) == <<-a[1], a[2]>>

FSub(a, b) == FAdd(a, FNeg(b))

FMul(a, b) ==
    IF IsNaN(a) \/ IsNaN(b) THEN NaN
    ELSE Norm(a[1] * b[1], a[2] * b[2])

FDiv(a, b) ==
    IF IsNaN(a) \/ IsNaN(b) THEN NaN
    ELSE Norm(a[1] * b[2], a[2] * b[1])

IsSquare(n) == \E k \in 0..n : k * k = n

Isqrt(n) == CHOOSE k \in 0..n : k * k = n

\* numpy sqrt of a non-negative finite value (the variance is clamped at 0).
FSqrt(v) ==
    IF IsNaN(v) \/ ~IsFinite(v) THEN v
    ELSE IF IsSquare(v[1]) /\ IsSquare(v[2]) THEN <<Isqrt(v[1]), Isqrt(v[2])>>
    ELSE <<v[1], v[2], 2>>

RECURSIVE FSum(_)
FSum(s) == IF s = <<>> THEN Num(0) ELSE FAdd(Head(s), FSum(Tail(s)))

(***************************************************************************)
(* Tables (pandas DataFrame): an index, the kind of the index object and   *)
(* one sequence of cells per column name.                                  *)
(***************************************************************************)
REQUIRED_COLS == {"Open", "High", "Low", "Close", "Volume"}

MkTable(index, kind, cols) == [index |-> index, kind |-> kind, cols |-> cols]

NoTable == MkTable(<<>>, "none", [c \in {} |-> <<>>])

Columns(T) == DOMAIN T.cols

NRows(T) == Len(T.index)

\* DataFrame.empty: some axis has length 0.
IsEmpty(T) == NRows(T) = 0 \/ Columns(T) = {}

\* A test that sees only a timestamp repeated in the next row.
HasAdjacentDuplicates(T) ==
    \E i \in 1..(NRows(T) - 1) : T.index[i] = T.index[i + 1]

\* Index.has_duplicates
HasDuplicates(T) ==
    \E i, j \in 1..NRows(T) : i # j /\ T.index[i] = T.index[j]

\* Index.is_monotonic_increasing (non-decreasing)
IsMonotonicIncreasing(T) ==
    \A i \in 1..(NRows(T) - 1) : T.index[i] <= T.index[i + 1]

\* The number of index labels smaller than label i, ties broken by position:
\* the place of row i after an ascending sort.
Rank(T, i) ==
    Cardinality({j \in 1..NRows(T) :
        \/ T.index[j] < T.index[i]
        \/ T.index[j] = T.index[i] /\ j < i}) + 1

\* A sort of the index labels alone, the cells staying where they are.
SortIndexOnly(T) ==
    LET n == NRows(T)
        at(k) == CHOOSE i \in 1..n : Rank(T, i) = k
    IN  MkTable([k \in 1..n |-> T.index[at(k)]], T.kind, T.cols)

\* DataFrame.sort_index: every column is permuted with the index.
SortIndex(T) ==
    LET n == NRows(T)
        at(k) == CHOOSE i \in 1..n : Rank(T, i) = k
    IN  MkTable([k \in 1..n |-> T.index[at(k)]], T.kind,
                [c \in Columns(T) |-> [k \in 1..n |-> T.cols[c][at(k)]]])

(***************************************************************************)
(* Errors: the exception class, the message text and the values the        *)
(* message interpolates.                                                   *)
(***************************************************************************)
NoErr == [type |-> "none", text |-> "", detail |-> {}]

MkErr(type, text, detail) == [type |-> type, text |-> text, detail |-> detail]

IsErr(e) == e # NoErr

(***************************************************************************)
(* validate_df: the three rejections in the order the code tests them,     *)
(* then the in-place sort.  The table returned is the state of the         *)
(* caller's object after the call.                                         *)
(***************************************************************************)
Missing(T) == REQUIRED_COLS \ Columns(T)

SchemaError(T) == MkErr("ValueError", "Missing required columns: ", Missing(T))

IndexTypeError == MkErr("ValueError", "Index must be a DatetimeIndex", {})

DuplicateTimestampError ==
    MkErr("ValueError", "Duplicate timestamps detected in DF.index", {})

NeedsSort(T) == ~IsMonotonicIncreasing(T)

\* validate_df with the sort moved before the checks.
validate_df_sort_first(T) ==
    LET S == IF NeedsSort(T) THEN SortIndex(T) ELSE T
    IN  IF Missing(T) # {} THEN [err |-> SchemaError(T), table |-> S]
        ELSE IF T.kind # "DatetimeIndex" THEN [err |-> IndexTypeError, table |-> S]
        ELSE IF HasDuplicates(T) THEN [err |-> DuplicateTimestampError, table |-> S]
        ELSE [err |-> NoErr, table |-> S]

validate_df(T) ==
    IF Missing(T) # {} THEN [err |-> SchemaError(T), table |-> T]
    ELSE IF T.kind # "DatetimeIndex" THEN [err |-> IndexTypeError, table |-> T]
    ELSE IF HasDuplicates(T) THEN [err |-> DuplicateTimestampError, table |-> T]
    ELSE IF NeedsSort(T) THEN [err |-> NoErr, table |-> SortIndex(T)]
    ELSE [err |-> NoErr, table |-> T]

(***************************************************************************)
(* add_features.                                                           *)
(***************************************************************************)
None == 0

Max(a, b) == IF a > b THEN a ELSE b

\* Series.shift(-1): every value moves one row up, the last row is NaN.
ShiftBack(x) == [t \in 1..Len(x) |-> IF t = Len(x) THEN NaN ELSE x[t + 1]]

\* Series.shift(1): every value moves one row down, the first row is NaN.
Shift1(x) == [t \in 1..Len(x) |-> IF t = 1 THEN NaN ELSE x[t - 1]]

\* Elementwise Series arithmetic of two columns of the same table.
SeriesSub(x, y) == [t \in 1..Len(x) |-> FSub(x[t], y[t])]

SeriesDiv(x, y) == [t \in 1..Len(x) |-> FDiv(x[t], y[t])]

\* Series.rolling(window=w): min_periods defaults to the window size.
MinPeriodsOne(w) == 1

MinPeriods(w) == w

\* The observations of the window ending at row t: the last w rows, without
\* the NaN ones (and the infinite ones, which rolling turns into NaN).
Window(x, t, w) == SubSeq(x, Max(1, t - w + 1), t)

Obs(x, t, w) == SelectSeq(Window(x, t, w), IsFinite)

RollingMean(x, w) ==
    [t \in 1..Len(x) |->
        LET obs == Obs(x, t, w)
            nobs == Len(obs)
        IN  IF nobs >= MinPeriods(w) /\ nobs > 0
            THEN FDiv(FSum(obs), Num(nobs))
            ELSE NaN]

\* roll_var with ddof = 1: the sum of squared differences from the mean of
\* the observations over nobs - 1.
RollingVar(x, w) ==
    [t \in 1..Len(x) |->
        LET obs == Obs(x, t, w)
            nobs == Len(obs)
        IN  IF nobs >= MinPeriods(w) /\ nobs > 1
            THEN LET mean == FDiv(FSum(obs), Num(nobs))
                     sq(i) == FMul(FSub(obs[i], mean), FSub(obs[i], mean))
                 IN  FDiv(FSum([i \in 1..nobs |-> sq(i)]), Num(nobs - 1))
            ELSE NaN]

RollingStd(x, w) == [t \in 1..Len(x) |-> FSqrt(RollingVar(x, w)[t])]

\* DF_out[name] = vals
SetColumn(T, name, vals) ==
    MkTable(T.index, T.kind,
            [c \in Columns(T) \cup {name} |-> IF c = name THEN vals ELSE T.cols[c]])

DailyReturn(close) == SeriesDiv(SeriesSub(close, Shift1(close)), Shift1(close))

\* The four assignments, each reading DF_out["Close"].
FeatureFrame(T, short_window, long_window, vol_window) ==
    LET T1 == SetColumn(T, "daily_return", DailyReturn(T.cols["Close"]))
        T2 == SetColumn(T1, "SMA_Short", RollingMean(T1.cols["Close"], short_window))
        T3 == SetColumn(T2, "SMA_Long", RollingMean(T2.cols["Close"], long_window))
    IN  SetColumn(T3, "Rolling_Volatility", RollingStd(T3.cols["Close"], vol_window))

EmptyInputError ==
    MkErr("ValueError", "Cannot compute features on an empty DF", {})

KeyErrorClose == MkErr("KeyError", "Close", {"Close"})

\* DF.copy(): the object DF_out names.  new is a fresh object.
DFAlias(ref, new) == ref

DFCopy(ref, new) == new

\* The rows a trailing dropna() would keep.
DropNaRows(T) ==
    LET keep == {i \in 1..NRows(T) : \A c \in Columns(T) : ~IsNaN(T.cols[c][i])}
        n == Cardinality(keep)
        at(k) == CHOOSE i \in keep : Cardinality({j \in keep : j < i}) = k - 1
    IN  MkTable([k \in 1..n |-> T.index[at(k)]], T.kind,
                [c \in Columns(T) |-> [k \in 1..n |-> T.cols[c][at(k)]]])

ReturnedDropNa(T) == DropNaRows(T)

\* return DF_out
Returned(T) == T

\* h is the heap (object -> table), ref the argument.  The result is the heap
\* after the call, the object returned and the exception raised.
add_features(h, ref, new, short_window, long_window, vol_window) ==
    IF ref = None \/ IsEmpty(h[ref])
    THEN [heap |-> h, ret |-> None, err |-> EmptyInputError]
    ELSE LET out == DFCopy(ref, new)
             h1 == [h EXCEPT ![out] = h[ref]]
         IN  IF "Close" \notin Columns(h1[out])
             THEN [heap |-> h, ret |-> None, err |-> KeyErrorClose]
             ELSE [heap |-> [h1 EXCEPT ![out] =
                       Returned(FeatureFrame(h1[out], short_window, long_window, vol_window))],
                   ret |-> out, err |-> NoErr]

(***************************************************************************)
(* Input tables.  Timestamps are days 1..MaxRows.  Every cell other than   *)
(* Close holds the number of the row it was created in, so that a row      *)
(* keeps its identity when the table is reordered.                         *)
(***************************************************************************)
CloseVals == {NaN, Num(0), Num(1), Num(2)}

Windows == 1..MaxWin

RowTag(n) == [i \in 1..n |-> Num(i)]

Asc(n) == [i \in 1..n |-> i]

Desc(n) == [i \in 1..n |-> n + 1 - i]

\* Tables for the feature engine: any closes on an ascending index, a
\* descending index (unsorted), and a table without Close.
FeatTables ==
    UNION {
        {MkTable(Asc(n), "DatetimeIndex",
                 [c \in REQUIRED_COLS |-> IF c = "Close" THEN close ELSE RowTag(n)]) :
            close \in [1..n -> CloseVals]}
        \cup {MkTable(Desc(n), "DatetimeIndex", [c \in REQUIRED_COLS |-> RowTag(n)]),
              MkTable(Asc(n), "DatetimeIndex",
                      [c \in REQUIRED_COLS \ {"Close"} |-> RowTag(n)])}
        : n \in 0..MaxRows}

ColumnSets ==
    {REQUIRED_COLS, REQUIRED_COLS \cup {"Adj Close"}, REQUIRED_COLS \ {"Close"},
     REQUIRED_COLS \ {"Open", "Volume"}}

\* Tables for validation: any index labels in any order, either index kind.
ValTables ==
    UNION {
        {MkTable(idx, kind, [c \in cs |-> RowTag(n)]) :
            idx \in [1..n -> 1..MaxRows],
            kind \in {"DatetimeIndex", "RangeIndex"},
            cs \in ColumnSets}
        : n \in 0..MaxRows}

(***************************************************************************)
(* The pipeline functions called on a table DF.                            *)
(***************************************************************************)
\* call records the last call: the function, the object it was given, the
\* window arguments and the heap as it was when the call started.
NoCall ==
    [op |-> "none", target |-> None, args |-> <<0, 0, 0>>,
     pre |-> [r \in 1..2 |-> NoTable]]

\* Outside Streamlit there is no session, no cache and no script position.
DashIdle ==
    /\ variant = "none"
    /\ refresh_token = 0
    /\ cache = {}
    /\ req = [TICKER |-> "", START_DATE |-> 1, END_DATE |-> 1]
    /\ pc = "lib"
    /\ trace = <<>>
    /\ served = [hit |-> FALSE, token |-> 0, steps |-> <<>>, rows |-> 0]
    /\ download = [header |-> <<>>, rows |-> <<>>]

LibInit(tables) ==
    /\ \E T \in tables : heap = [r \in 1..2 |-> IF r = 1 THEN T ELSE NoTable]
    /\ DF = 1
    /\ DF_out = None
    /\ err = NoErr
    /\ call = NoCall
    /\ DashIdle

\* validate_df(target), target one of the two tables at hand.
Validate ==
    \E target \in {DF, DF_out} \ {None} :
        LET r == validate_df(heap[target])
        IN  /\ heap' = [heap EXCEPT ![target] = r.table]
            /\ err' = r.err
            /\ call' = [op |-> "validate_df", target |-> target,
                        args |-> <<0, 0, 0>>, pre |-> heap]
            /\ UNCHANGED <<DF, DF_out>>
            /\ UNCHANGED dashvars

\* DF_out = add_features(DF, s, l, v), once per run as in tests/quick_test.py.
AddFeatures ==
    \E s \in Windows, l \in Windows, v \in Windows :
        LET r == add_features(heap, DF, 2, s, l, v)
        IN  /\ DF_out = None
            /\ heap' = r.heap
            /\ DF_out' = IF IsErr(r.err) THEN DF_out ELSE r.ret
            /\ err' = r.err
            /\ call' = [op |-> "add_features", target |-> DF,
                        args |-> <<s, l, v>>, pre |-> heap]
            /\ UNCHANGED DF
            /\ UNCHANGED dashvars

Init == LibInit(FeatTables)

Next == Validate \/ AddFeatures

Spec == Init /\ [][Next]_vars

ValInit == LibInit(ValTables)

ValNext == Validate

ValSpec == ValInit /\ [][ValNext]_vars

(***************************************************************************)
(* fetch_data.  The provider (yf.download) answers with a table whose      *)
(* columns may be hierarchical; steps lists the statements that ran.       *)
(***************************************************************************)
NoDataError(ticker) ==
    MkErr("ValueError", "No data found for {ticker}. Check ticker or date range.",
          {ticker})

\* flatten_columns: the first level of a MultiIndex becomes the column names.
flatten_columns(P) == [table |-> P.table, multi |-> FALSE]

\* DF.index = pd.to_datetime(DF.index)
ToDatetime(T) == MkTable(T.index, "DatetimeIndex", T.cols)

\* fetch_data without the test for an empty answer.
fetch_data_unchecked(P, ticker, start, end) ==
    [err |-> NoErr, table |-> ToDatetime(flatten_columns(P).table),
     steps |-> <<"download", "flatten_columns", "to_datetime">>]

fetch_data(P, ticker, start, end) ==
    IF IsEmpty(P.table)
    THEN [err |-> NoDataError(ticker), table |-> NoTable, steps |-> <<"download">>]
    ELSE [err |-> NoErr, table |-> ToDatetime(flatten_columns(P).table),
          steps |-> <<"download", "flatten_columns", "to_datetime">>]

\* What the provider may answer: nothing, two good rows (flat or
\* hierarchical columns), rows out of order, a repeated day, a column short.
ProviderTable(idx, cs) == MkTable(idx, "DatetimeIndex", [c \in cs |-> RowTag(Len(idx))])

ProviderResults ==
    {[table |-> ProviderTable(<<>>, REQUIRED_COLS), multi |-> FALSE],
     [table |-> ProviderTable(<<1, 2>>, REQUIRED_COLS), multi |-> FALSE],
     [table |-> ProviderTable(<<1, 2>>, REQUIRED_COLS), multi |-> TRUE],
     [table |-> ProviderTable(<<2, 1>>, REQUIRED_COLS), multi |-> TRUE],
     [table |-> ProviderTable(<<1, 1>>, REQUIRED_COLS), multi |-> FALSE],
     [table |-> ProviderTable(<<1, 2>>, REQUIRED_COLS \ {"Volume"}), multi |-> FALSE],
     [table |-> ProviderTable(<<1, 2>>, REQUIRED_COLS \cup {"Adj Close"}), multi |-> FALSE]}

(***************************************************************************)
(* The dashboard script.  variant is the front end that runs: "app" is     *)
(* app/streamlit_app.py, "root" is streamlit_app.py.  One run of the       *)
(* script is the steps precheck, fetch, validate, features, render; it     *)
(* starts when the page loads or a widget changes.                         *)
(***************************************************************************)
Tickers == {"", "AAPL"}

Dates == {1, 2}

IsoFormat(d) == <<"2020-01-01", "2020-01-02">>[d]

\* The slider positions used: the smallest of each slider.
ShortSma == 2
LongSma == 5
VolWindow == 5

Requests == [TICKER : Tickers, START_DATE : Dates, END_DATE : Dates]

NoReq == [TICKER |-> "", START_DATE |-> 1, END_DATE |-> 1]

NoServe == [hit |-> FALSE, token |-> 0, steps |-> <<>>, rows |-> 0]

\* st.cache_data hashes every argument except those whose parameter name
\* starts with an underscore: _refresh_counter in app, refresh_token in root.
TokenHashed(v) == v = "root"

CacheKey(v, ticker, start_iso, end_iso, token) ==
    IF TokenHashed(v) THEN <<ticker, start_iso, end_iso, token>>
    ELSE <<ticker, start_iso, end_iso>>

ThisKey ==
    CacheKey(variant, req.TICKER, IsoFormat(req.START_DATE), IsoFormat(req.END_DATE),
             refresh_token)

Cached(key) == {e \in cache : e.key = key}

\* st.stop() after an error: the rest of the script does not run.
StopsNever(e) == FALSE

StopsOn(e) == IsErr(e)

Stage(name, e) == [stage |-> name, err |-> e]

FreshHeap == [r \in 1..2 |-> NoTable]

\* The order of the columns of a table: the provider's columns in the
\* provider's order, then each added column in the order of its assignment.
ColumnOrder(T) ==
    SelectSeq(<<"Open", "High", "Low", "Close", "Adj Close", "Volume", "daily_return",
                "SMA_Short", "SMA_Long", "Rolling_Volatility">>,
              LAMBDA c : c \in Columns(T))

\* The name yfinance gives the index.
IndexLabel == "Date"

NoDownload == [header |-> <<>>, rows |-> <<>>]

\* to_csv(index=False): the columns alone.
to_csv_no_index(T) ==
    [header |-> ColumnOrder(T),
     rows |-> [i \in 1..NRows(T) |->
                 [k \in 1..Len(ColumnOrder(T)) |-> T.cols[ColumnOrder(T)[k]][i]]]]

\* DF_out.to_csv(index=True): a header line and one line per row, each
\* starting with the index.  Index labels are written as numbers <<day, 1>>.
to_csv(T) ==
    [header |-> <<IndexLabel>> \o ColumnOrder(T),
     rows |-> [i \in 1..NRows(T) |->
                 <<Num(T.index[i])>> \o
                 [k \in 1..Len(ColumnOrder(T)) |-> T.cols[ColumnOrder(T)[k]][i]]]]

DashInit ==
    /\ variant \in {"app", "root"}
    /\ refresh_token = 0
    /\ cache = {}
    /\ req = [TICKER |-> "AAPL", START_DATE |-> 1, END_DATE |-> 2]
    /\ pc = "precheck"
    /\ trace = <<>>
    /\ served = NoServe
    /\ download = NoDownload
    /\ heap = FreshHeap
    /\ DF = None
    /\ DF_out = None
    /\ err = NoErr
    /\ call = NoCall

\* A rerun starts the script from the top with fresh globals.
Rerun ==
    /\ pc' = "precheck"
    /\ trace' = <<>>
    /\ served' = NoServe
    /\ download' = NoDownload
    /\ heap' = FreshHeap
    /\ DF' = None
    /\ DF_out' = None
    /\ err' = NoErr
    /\ UNCHANGED <<variant, cache, call>>

\* The user changes the ticker or a date.
Interact ==
    /\ pc = "idle"
    /\ \E r \in Requests : r # req /\ req' = r
    /\ UNCHANGED refresh_token
    /\ Rerun

\* The Refresh button: the token goes up and the script reruns.
PressRefresh ==
    /\ pc = "idle"
    /\ refresh_token < MaxRefresh
    /\ refresh_token' = refresh_token + 1
    /\ UNCHANGED req
    /\ Rerun

\* The checks before the fetch: a ticker, and start before end.
PreCheck ==
    /\ pc = "precheck"
    /\ IF req.TICKER = "" \/ req.START_DATE >= req.END_DATE
       THEN /\ err' = MkErr("st.error", "invalid input", {})
            /\ pc' = "idle"
       ELSE /\ err' = NoErr
            /\ pc' = "fetch"
    /\ UNCHANGED <<heap, DF, DF_out, call, variant, refresh_token, cache, req, trace, served,
                   download>>

\* DF = cached_fetch(...), answered from the cache with a copy of the entry.
FetchHit ==
    /\ pc = "fetch"
    /\ \E e \in Cached(ThisKey) :
          /\ heap' = [heap EXCEPT ![1] = e.value]
          /\ served' = [hit |-> TRUE, token |-> e.token, steps |-> <<>>,
                        rows |-> NRows(e.value)]
    /\ DF' = 1
    /\ err' = NoErr
    /\ trace' = Append(trace, Stage("cached_fetch", NoErr))
    /\ pc' = "validate"
    /\ UNCHANGED <<DF_out, call, variant, refresh_token, cache, req, download>>

\* DF = cached_fetch(...), not in the cache: fetch_data runs, what it
\* returns is stored, what it raises is not.
FetchMiss ==
    /\ pc = "fetch"
    /\ Cached(ThisKey) = {}
    /\ \E P \in ProviderResults :
          LET r == fetch_data(P, req.TICKER, IsoFormat(req.START_DATE),
                              IsoFormat(req.END_DATE))
          IN  /\ served' = [hit |-> FALSE, token |-> refresh_token, steps |-> r.steps,
                            rows |-> NRows(P.table)]
              /\ err' = r.err
              /\ trace' = Append(trace, Stage("cached_fetch", r.err))
              /\ IF IsErr(r.err)
                 THEN /\ UNCHANGED <<heap, DF, cache>>
                      /\ pc' = IF StopsOn(r.err) THEN "idle" ELSE "validate"
                 ELSE /\ heap' = [heap EXCEPT ![1] = r.table]
                      /\ DF' = 1
                      /\ cache' = cache \cup
                            {[key |-> ThisKey, value |-> r.table, token |-> refresh_token]}
                      /\ pc' = "validate"
    /\ UNCHANGED <<DF_out, call, variant, refresh_token, req, download>>

AttributeError == MkErr("AttributeError", "'NoneType' object has no attribute", {})

\* validate_df(DF), inside the same try as the fetch.
ValidateStep ==
    /\ pc = "validate"
    /\ LET r == IF DF = None THEN [err |-> AttributeError, table |-> NoTable]
                ELSE validate_df(heap[DF])
       IN  /\ heap' = IF DF = None THEN heap ELSE [heap EXCEPT ![DF] = r.table]
           /\ err' = r.err
           /\ trace' = Append(trace, Stage("validate_df", r.err))
           /\ pc' = IF StopsOn(r.err) THEN "idle" ELSE "features"
    /\ UNCHANGED <<DF, DF_out, call, variant, refresh_token, cache, req, served, download>>

\* DF_out = add_features(DF, SHORT_SMA, LONG_SMA, VOL_WINDOW)
FeatureStep ==
    /\ pc = "features"
    /\ LET r == add_features(heap, DF, 2, ShortSma, LongSma, VolWindow)
       IN  /\ heap' = r.heap
           /\ DF_out' = r.ret
           /\ err' = r.err
           /\ trace' = Append(trace, Stage("add_features", r.err))
           /\ pc' = IF IsErr(r.err) THEN "idle" ELSE "render"
    /\ UNCHANGED <<DF, call, variant, refresh_token, cache, req, served, download>>

\* The header, the charts and the raw-data tab are drawn from DF_out; the
\* download button is given DF_out.to_csv(index=True).
Render ==
    /\ pc = "render"
    /\ download' = to_csv(heap[DF_out])
    /\ pc' = "idle"
    /\ UNCHANGED <<heap, DF, DF_out, err, call, variant, refresh_token, cache, req,
                   trace, served>>

DashNext ==
    \/ Interact
    \/ PressRefresh
    \/ PreCheck
    \/ FetchHit
    \/ FetchMiss
    \/ ValidateStep
    \/ FeatureStep
    \/ Render

DashSpec == DashInit /\ [][DashNext]_vars

(***************************************************************************)
(* Claims about add_features.                                              *)
(***************************************************************************)
\* A validated table: validate_df accepts it and leaves it as it is.
Validated(T) == validate_df(T) = [err |-> NoErr, table |-> T]

CalledAddFeatures == call.op = "add_features"

Input == call.pre[call.target]

Output == heap[DF_out]

\* C3: for every non-empty validated table and all positive window sizes,
\* add_features raises nothing and returns a table with the same number of
\* rows and the same timestamps as its input.
C3_RowCountPreserved ==
    (CalledAddFeatures /\ Validated(Input) /\ NRows(Input) > 0) =>
        /\ err = NoErr
        /\ DF_out # None
        /\ NRows(Output) = NRows(Input)
        /\ Output.index = Input.index
        /\ \A c \in Columns(Output) : Len(Output.cols[c]) = NRows(Input)

\* A call on a full validated table with a window larger than the table.
C3_Witness ==
    /\ CalledAddFeatures
    /\ Validated(Input)
    /\ NRows(Input) = MaxRows
    /\ call.args[3] > NRows(Input)
    /\ err = NoErr
    /\ NRows(Output) = MaxRows

Succeeded == CalledAddFeatures /\ err = NoErr /\ DF_out # None

Close == Input.cols["Close"]

\* C4 as stated: daily_return[t] is undefined exactly when t is the first
\* row or Close[t-1] is undefined, and is the relative change otherwise.
C4_AsStated ==
    Succeeded =>
        \A t \in 1..NRows(Input) :
            LET dr == Output.cols["daily_return"][t]
            IN  /\ IsNaN(dr) <=> (t = 1 \/ IsNaN(Close[t - 1]))
                /\ ~IsNaN(dr) => FMul(dr, Close[t - 1]) = FSub(Close[t], Close[t - 1])

\* C4 amended: daily_return[t] is undefined exactly when t is the first row,
\* or Close[t-1] or Close[t] is undefined, or both are 0; otherwise it is
\* (Close[t] - Close[t-1]) / Close[t-1], infinite when Close[t-1] is 0.
C4_DailyReturn ==
    Succeeded =>
        \A t \in 1..NRows(Input) :
            LET dr == Output.cols["daily_return"][t]
            IN  /\ IsNaN(dr) <=>
                     \/ t = 1
                     \/ IsNaN(Close[t - 1])
                     \/ IsNaN(Close[t])
                     \/ Close[t - 1] = Num(0) /\ Close[t] = Num(0)
                /\ (~IsNaN(dr) /\ Close[t - 1] # Num(0)) =>
                     /\ IsFinite(dr)
                     /\ FMul(dr, Close[t - 1]) = FSub(Close[t], Close[t - 1])
                /\ (~IsNaN(dr) /\ Close[t - 1] = Num(0)) =>
                     dr = <<Sgn(Close[t][1]), 0>>

\* A table whose second row has a proper return and whose third close is
\* undefined after a defined one.
C4_Witness ==
    /\ Succeeded
    /\ NRows(Input) >= 3
    /\ IsFinite(Output.cols["daily_return"][2])
    /\ Output.cols["daily_return"][2] # Num(0)
    /\ ~IsNaN(Close[2]) /\ IsNaN(Close[3])
    /\ IsNaN(Output.cols["daily_return"][3])

\* The w closes ending at row t, for t >= w.
Trailing(x, t, w) == [i \in 1..w |-> x[t - w + i]]

\* The arithmetic mean of w values, undefined if one of them is.
MeanOf(s) == FDiv(FSum(s), Num(Len(s)))

\* The sample standard deviation of w values: the root of
\* (sum of squares - (sum)^2 / w) / (w - 1).
SampleStdOf(s) ==
    LET w == Len(s)
        sum == FSum(s)
        sumsq == FSum([i \in 1..w |-> FMul(s[i], s[i])])
    IN  FSqrt(FDiv(FSub(sumsq, FDiv(FMul(sum, sum), Num(w))), Num(w - 1)))

RollingNames == <<"SMA_Short", "SMA_Long", "Rolling_Volatility">>

\* C5: each rolling column is undefined at every row before its window is
\* full, and from there on is the mean (SMA_Short, SMA_Long) or the sample
\* standard deviation (Rolling_Volatility) of the w closes ending at the row.
C5_RollingColumns ==
    Succeeded =>
        \A t \in 1..NRows(Input) :
            /\ \A k \in 1..3 : t < call.args[k] => IsNaN(Output.cols[RollingNames[k]][t])
            /\ t >= call.args[1] =>
                  Output.cols["SMA_Short"][t] = MeanOf(Trailing(Close, t, call.args[1]))
            /\ t >= call.args[2] =>
                  Output.cols["SMA_Long"][t] = MeanOf(Trailing(Close, t, call.args[2]))
            /\ t >= call.args[3] =>
                  Output.cols["Rolling_Volatility"][t] =
                      SampleStdOf(Trailing(Close, t, call.args[3]))

\* A short window that fills, a volatility window that fills with a non-zero
\* deviation, and a long window larger than the table.
C5_Witness ==
    /\ Succeeded
    /\ NRows(Input) = MaxRows
    /\ call.args[1] = 2 /\ call.args[2] > MaxRows /\ call.args[3] = MaxRows
    /\ IsNaN(Output.cols["SMA_Short"][1])
    /\ IsFinite(Output.cols["SMA_Short"][2])
    /\ \A t \in 1..MaxRows : IsNaN(Output.cols["SMA_Long"][t])
    /\ ~IsNaN(Output.cols["Rolling_Volatility"][MaxRows])
    /\ Output.cols["Rolling_Volatility"][MaxRows] # Num(0)

\* C6: add_features leaves its input as it was, whether it returns or
\* raises; what it returns is another object, and changing that object
\* afterwards leaves the input as it was.
C6_InputNotMutated ==
    /\ CalledAddFeatures =>
          /\ heap[call.target] = Input
          /\ err = NoErr => (DF_out # None /\ DF_out # call.target)
    /\ (call.op = "validate_df" /\ DF_out # None /\ call.target = DF_out) =>
          /\ DF_out # DF
          /\ heap[DF] = call.pre[DF]

\* The returned table was sorted in place after the call, and the input is
\* still in its own order.
C6_Witness ==
    /\ call.op = "validate_df"
    /\ DF_out # None
    /\ call.target = DF_out
    /\ heap[DF_out] # call.pre[DF_out]
    /\ "daily_return" \in Columns(heap[DF_out])
    /\ heap[DF] = call.pre[DF]
    /\ "daily_return" \notin Columns(heap[DF])

(***************************************************************************)
(* Claims about validate_df.                                               *)
(***************************************************************************)
CalledValidate == call.op = "validate_df"

Before == call.pre[call.target]

After == heap[call.target]

\* The (timestamp, row values) pairs of a table.
RowPairs(T) ==
    {<<T.index[i], [c \in Columns(T) |-> T.cols[c][i]]>> : i \in 1..NRows(T)}

StrictlyIncreasing(idx) == \A i \in 1..(Len(idx) - 1) : idx[i] < idx[i + 1]

\* C7: when validate_df returns without error the index is strictly
\* increasing and the table holds the same (timestamp, row values) pairs as
\* before: rows are reordered, never dropped or re-paired.
C7_SortedAfterValidation ==
    (CalledValidate /\ err = NoErr) =>
        /\ StrictlyIncreasing(After.index)
        /\ NRows(After) = NRows(Before)
        /\ Columns(After) = Columns(Before)
        /\ RowPairs(After) = RowPairs(Before)

\* A full table that validation had to reorder.
C7_Witness ==
    /\ CalledValidate
    /\ err = NoErr
    /\ NRows(Before) = MaxRows
    /\ ~StrictlyIncreasing(Before.index)
    /\ After # Before

\* The repair case: all required columns, a date/time index, unique
\* timestamps, not in ascending order.
RepairCase(T) ==
    /\ REQUIRED_COLS \subseteq Columns(T)
    /\ T.kind = "DatetimeIndex"
    /\ Cardinality({T.index[i] : i \in 1..NRows(T)}) = NRows(T)
    /\ \E i \in 1..(NRows(T) - 1) : T.index[i] > T.index[i + 1]

\* C8: validate_df changes its input only in the repair case; whenever it
\* raises, or the table is already sorted, the table is left as it was.
C8_OnlyRepairMutates ==
    CalledValidate =>
        /\ After # Before => (RepairCase(Before) /\ err = NoErr)
        /\ IsErr(err) => After = Before
        /\ \A r \in DOMAIN heap : r # call.target => heap[r] = call.pre[r]

\* A rejected table that is out of order and was left as it was.
C8_Witness ==
    /\ CalledValidate
    /\ IsErr(err)
    /\ NRows(Before) = MaxRows
    /\ \E i \in 1..(NRows(Before) - 1) : Before.index[i] > Before.index[i + 1]
    /\ After = Before

\* The error kind a message stands for (every one is raised as ValueError).
KindOf(e) ==
    CASE e = NoErr -> "none"
      [] e.text = "Missing required columns: " -> "SchemaError"
      [] e.text = "Index must be a DatetimeIndex" -> "IndexTypeError"
      [] e.text = "Duplicate timestamps detected in DF.index" -> "DuplicateTimestampError"
      [] OTHER -> "other"

Absent(T) == {c \in {"Open", "High", "Low", "Close", "Volume"} : c \notin Columns(T)}

NotTemporal(T) == T.kind # "DatetimeIndex"

Repeated(T) == Cardinality({T.index[i] : i \in 1..NRows(T)}) < NRows(T)

\* C9: validate_df rejects a table exactly when a required column is
\* absent, or the index is not date/time, or a timestamp occurs twice; the
\* first of these that applies decides the kind of the error, the three
\* kinds are different, and the schema error lists exactly the absent
\* required columns.
C9_Rejections ==
    CalledValidate =>
        /\ IsErr(err) <=> (Absent(Before) # {} \/ NotTemporal(Before) \/ Repeated(Before))
        /\ KindOf(err) \in {"none", "SchemaError", "IndexTypeError", "DuplicateTimestampError"}
        /\ KindOf(err) = "SchemaError" <=> Absent(Before) # {}
        /\ KindOf(err) = "SchemaError" => err.detail = Absent(Before)
        /\ KindOf(err) = "IndexTypeError" <=> (Absent(Before) = {} /\ NotTemporal(Before))
        /\ KindOf(err) = "DuplicateTimestampError" <=>
              (Absent(Before) = {} /\ ~NotTemporal(Before) /\ Repeated(Before))

\* A table with every column and a date/time index, rejected for a
\* timestamp that occurs twice in rows that are not adjacent.
C9_Witness ==
    /\ CalledValidate
    /\ KindOf(err) = "DuplicateTimestampError"
    /\ NRows(Before) = 3
    /\ Before.index[1] = Before.index[3]
    /\ Before.index[1] # Before.index[2]

(***************************************************************************)
(* Claims about the dashboard script.                                      *)
(***************************************************************************)
\* C1: a fetch answered from the cache is answered with a result stored
\* under the current refresh token: once Refresh has changed the token, the
\* result cached under the previous token is not served again.
C1_NoStaleAfterRefresh == served.hit => served.token = refresh_token

StageNames == [i \in 1..Len(trace) |-> trace[i].stage]

PipelineOrder == <<"cached_fetch", "validate_df", "add_features">>

\* C2: the stages of a request run in the order acquisition, validation,
\* feature computation; add_features runs only after validate_df returned
\* without error on the request's table, and never for a table with a
\* repeated timestamp.
C2_StagesInOrder ==
    /\ Len(trace) <= 3
    /\ StageNames = SubSeq(PipelineOrder, 1, Len(trace))
    /\ Len(trace) = 3 =>
          /\ trace[1].err = NoErr
          /\ trace[2].err = NoErr
          /\ DF # None
          /\ StrictlyIncreasing(heap[DF].index)
    /\ (Len(trace) >= 2 /\ DF # None /\ Repeated(heap[DF])) =>
          /\ IsErr(trace[2].err)
          /\ Len(trace) = 2
          /\ DF_out = None

\* A request whose table has a repeated timestamp, stopped at validation.
C2_Witness ==
    /\ pc = "idle"
    /\ Len(trace) = 2
    /\ DF # None
    /\ Repeated(heap[DF])
    /\ KindOf(trace[2].err) = "DuplicateTimestampError"
    /\ DF_out = None

ProviderEmpty == Len(trace) >= 1 /\ ~served.hit /\ served.rows = 0

NoDataOutcome ==
    /\ trace[1].stage = "cached_fetch"
    /\ trace[1].err.type = "ValueError"
    /\ trace[1].err.text = "No data found for {ticker}. Check ticker or date range."
    /\ req.TICKER \in trace[1].err.detail
    /\ err = trace[1].err
    /\ DF = None /\ DF_out = None
    /\ heap = FreshHeap
    /\ Cached(ThisKey) = {}
    /\ served.steps = <<"download">>
    /\ Len(trace) = 1
    /\ pc = "idle"

\* C10 as stated: when the provider returns no rows the request fails with
\* a no-data error naming the symbol and the requested date range, no table
\* is returned and no later stage runs.
C10_AsStated ==
    ProviderEmpty =>
        /\ NoDataOutcome
        /\ {IsoFormat(req.START_DATE), IsoFormat(req.END_DATE)} \subseteq trace[1].err.detail

\* C10 amended: when the provider returns no rows the request fails with a
\* no-data error naming the symbol (the message carries no dates), no table
\* is returned or cached, and neither column flattening, validation nor
\* feature computation runs.
C10_NoData ==
    ProviderEmpty =>
        /\ NoDataOutcome
        /\ trace[1].err.detail = {req.TICKER}

\* A request for AAPL that the provider answered with no rows.
C10_Witness ==
    /\ ProviderEmpty
    /\ pc = "idle"
    /\ req.TICKER = "AAPL"
    /\ IsErr(err)
    /\ err.detail = {"AAPL"}

(***************************************************************************)
(* Claims about the column names and the CSV export.                       *)
(***************************************************************************)
FeaturesDone == Len(trace) = 3 /\ trace[3].err = NoErr /\ DF_out # None

Exported == FeaturesDone /\ pc = "idle"

HeaderNames(h) == {h[k] : k \in 2..Len(h)}

IndexFirst ==
    /\ Len(download.header) = Cardinality(Columns(heap[DF_out])) + 1
    /\ download.header[1] \notin Columns(heap[DF_out])
    /\ Len(download.rows) = NRows(heap[DF_out])
    /\ \A i \in 1..Len(download.rows) :
          /\ Len(download.rows[i]) = Len(download.header)
          /\ download.rows[i][1] = Num(heap[DF_out].index[i])

\* C11 as stated: the table add_features returns, and the header of its
\* CSV export, have exactly the columns Open, High, Low, Close, Volume,
\* daily_return, SMA_short, SMA_long, rolling_volatility, the timestamp
\* index being the first exported column.
C11_AsStated ==
    /\ FeaturesDone =>
          Columns(heap[DF_out]) =
              {"Open", "High", "Low", "Close", "Volume", "daily_return", "SMA_short",
               "SMA_long", "rolling_volatility"}
    /\ Exported =>
          /\ HeaderNames(download.header) =
                {"Open", "High", "Low", "Close", "Volume", "daily_return", "SMA_short",
                 "SMA_long", "rolling_volatility"}
          /\ IndexFirst

\* C11 amended: the table add_features returns, and the header of its CSV
\* export, have exactly the columns of the input plus daily_return,
\* SMA_Short, SMA_Long and Rolling_Volatility (nine names for an input with
\* the five required columns), the timestamp index being the first exported
\* column.
C11_ColumnNames ==
    /\ FeaturesDone =>
          /\ Columns(heap[DF_out]) =
                Columns(heap[DF]) \cup
                {"daily_return", "SMA_Short", "SMA_Long", "Rolling_Volatility"}
          /\ Columns(heap[DF]) \cap
                {"daily_return", "SMA_Short", "SMA_Long", "Rolling_Volatility"} = {}
          /\ Columns(heap[DF]) = {"Open", "High", "Low", "Close", "Volume"} =>
                Columns(heap[DF_out]) =
                    {"Open", "High", "Low", "Close", "Volume", "daily_return",
                     "SMA_Short", "SMA_Long", "Rolling_Volatility"}
    /\ Exported =>
          /\ HeaderNames(download.header) = Columns(heap[DF_out])
          /\ IndexFirst

\* A request with the five required columns, rendered, with its download.
C11_Witness ==
    /\ Exported
    /\ Columns(heap[DF]) = {"Open", "High", "Low", "Close", "Volume"}
    /\ Len(download.header) = 10
    /\ download.header[1] = "Date"
    /\ "SMA_Short" \in HeaderNames(download.header)
    /\ Len(download.rows) = 2
=============================================================================
